---- MODULE Spec2Model ----
(***************************************************************************)
(* A model of the bill splitter's AppComponent (src/src/app.component.ts): *)
(* the session state held in its signals, the handlers that change it, and *)
(* the billSummary computation.  The two Gemini calls (parseReceipt,       *)
(* assignItems in src/unnamed/part_000) are requests in flight whose       *)
(* answers are drawn from small sets.                                      *)
(*                                                                         *)
(* Strings are sequences of ASCII codes, so that toLowerCase, toUpperCase  *)
(* and trim are computed.  Numbers are exact non-negative rationals        *)
(* extended with Infinity and NaN (IEEE division by zero); the rounding of *)
(* 64-bit floats is not modelled.                                          *)
(***************************************************************************)
EXTENDS Integers, Sequences, FiniteSets, TLC

VARIABLES appState, errorMessage, receiptItems, tax, tip, people,
          chatHistory, userMessage, isProcessingChat,
          parseInFlight, chatInFlight

vars == <<appState, errorMessage, receiptItems, tax, tip, people,
          chatHistory, userMessage, isProcessingChat,
          parseInFlight, chatInFlight>>

\* Bounds of the model.
MaxBatch == 1
MaxChats == 3
MaxInFlight == 1
MaxChatsInFlight == 2

-----------------------------------------------------------------------------
(* Strings *)

Range(s) == {s[i] : i \in 1..Len(s)}

\* String.prototype.toUpperCase / toLowerCase on one ASCII code.
UpperChar(c) == IF c >= 97 /\ c =< 122 THEN c - 32 ELSE c
LowerChar(c) == IF c >= 65 /\ c =< 90 THEN c + 32 ELSE c

toLowerCase(s) == [i \in 1..Len(s) |-> LowerChar(s[i])]

\* capitalize(s): '' for an empty string, else first letter uppercased and
\* the rest unchanged.
capitalize(s) ==
    IF Len(s) = 0 THEN <<>> ELSE <<UpperChar(s[1])>> \o Tail(s)

IsSpace(c) == c = 32 \/ c = 9 \/ c = 10 \/ c = 13

RECURSIVE trimStart(_)
trimStart(s) ==
    IF Len(s) > 0 /\ IsSpace(s[1]) THEN trimStart(Tail(s)) ELSE s

RECURSIVE trimEnd(_)
trimEnd(s) ==
    IF Len(s) > 0 /\ IsSpace(s[Len(s)])
    THEN trimEnd(SubSeq(s, 1, Len(s) - 1)) ELSE s

trim(s) == trimEnd(trimStart(s))

-----------------------------------------------------------------------------
(* Numbers: n/d in lowest terms; d = 0 is Infinity (n = 1) or NaN (n = 0). *)

RECURSIVE GCD(_, _)
GCD(a, b) == IF b = 0 THEN a ELSE GCD(b, a % b)

NaN == [n |-> 0, d |-> 0]
Infinity == [n |-> 1, d |-> 0]
Num(k) == [n |-> k, d |-> 1]

IsNaN(a) == a.d = 0 /\ a.n = 0
IsInf(a) == a.d = 0 /\ a.n # 0
IsFinite(a) == a.d # 0

Norm(n, d) ==
    IF d = 0 THEN (IF n = 0 THEN NaN ELSE Infinity)
    ELSE LET g == GCD(n, d) IN [n |-> n \div g, d |-> d \div g]

NumAdd(a, b) ==
    IF IsNaN(a) \/ IsNaN(b) THEN NaN
    ELSE IF IsInf(a) \/ IsInf(b) THEN Infinity
    ELSE Norm(a.n * b.d + b.n * a.d, a.d * b.d)

NumMul(a, b) ==
    IF IsNaN(a) \/ IsNaN(b) THEN NaN
    ELSE IF IsInf(a) THEN (IF b.n = 0 THEN NaN ELSE Infinity)
    ELSE IF IsInf(b) THEN (IF a.n = 0 THEN NaN ELSE Infinity)
    ELSE Norm(a.n * b.n, a.d * b.d)

NumDiv(a, b) ==
    IF IsNaN(a) \/ IsNaN(b) THEN NaN
    ELSE IF IsInf(a) THEN (IF IsInf(b) THEN NaN ELSE Infinity)
    ELSE IF IsInf(b) THEN Num(0)
    ELSE IF b.n = 0 THEN (IF a.n = 0 THEN NaN ELSE Infinity)
    ELSE Norm(a.n * b.d, a.d * b.n)

-----------------------------------------------------------------------------
(* Values the collaborators and the user supply *)

\* Item names printed on receipts, "Bu"(rger) and "Fr"(ies).
Burger == <<66, 117>>
Fries == <<70, 114>>

\* Item names as the Interpretation Collaborator may spell them.
burgerLower == <<98, 117>>
FRIESUpper == <<70, 82>>

\* Person names as the Interpretation Collaborator may spell them.
david == <<100, 97>>
David == <<68, 97>>
Jane == <<74, 97>>
John == <<74, 111>>

\* ParsedReceipt values the Extraction Collaborator may return: the receipt
\* of the worked example, a receipt with two lines of the same name, and a
\* one-line receipt whose prices sum to zero.
ExampleReceipt ==
    [items |-> <<[name |-> Burger, price |-> 10], [name |-> Fries, price |-> 4]>>,
     tax |-> 1, tip |-> 2]
TwoFriesReceipt ==
    [items |-> <<[name |-> Fries, price |-> 4], [name |-> Fries, price |-> 4]>>,
     tax |-> 1, tip |-> 0]
FreeReceipt ==
    [items |-> <<[name |-> Burger, price |-> 0]>>, tax |-> 1, tip |-> 2]

Receipts == {ExampleReceipt, TwoFriesReceipt, FreeReceipt}

\* Assignment values the Interpretation Collaborator may put in a batch.
davidBurger == [personName |-> david, itemName |-> burgerLower]
DavidBurger == [personName |-> David, itemName |-> burgerLower]
JaneBurger == [personName |-> Jane, itemName |-> burgerLower]
JaneFries == [personName |-> Jane, itemName |-> FRIESUpper]
JohnFries == [personName |-> John, itemName |-> FRIESUpper]

Assignments == {davidBurger, DavidBurger, JaneBurger, JaneFries, JohnFries}

SeqsUpTo(S, n) == UNION {[1..k -> S] : k \in 0..n}

\* The batch of the worked example: the burger to David, the fries shared
\* by Jane and John.
ExampleBatch == <<davidBurger, JaneFries, JohnFries>>

\* Longer batches: one item shared by two people, one pair repeated, one
\* person spelled with both cases, and the worked example.
SharedBatches ==
    {<<JaneFries, JohnFries>>, <<davidBurger, davidBurger>>,
     <<davidBurger, DavidBurger>>, ExampleBatch}

\* Batches the Interpretation Collaborator may return: every batch of at
\* most MaxBatch assignments, and the longer ones above.
Batches == SeqsUpTo(Assignments, MaxBatch) \cup SharedBatches

\* What the user may type into the chat box: a blank text and " h".
Messages == {<<32>>, <<32, 104>>}

\* Kinds of file handed to onFileSelected.
Files == {"none", "text/plain", "image/png"}

\* Fixed texts, abbreviated.
NullMessage == "null"
NotImageMessage == "Please upload an image file."
ParseFailedMessage == "Failed to parse receipt. Please try again with a clearer image."
UnknownErrorMessage == "An unknown error occurred."
ParseErrors == {ParseFailedMessage, UnknownErrorMessage}

\* Chat texts are code sequences like the user's text: "Rp" Receipt parsed!,
\* "In" I couldn't find any items, "As" Assigned:..., "Ih" I had trouble
\* understanding that, "Ca" Cannot read properties of undefined.
ReceiptParsedText == <<82, 112>>
NothingFoundText == <<73, 110>>
AssignedText == <<65, 115>>
RephraseText == <<73, 104>>
TypeErrorText == <<67, 97>>

-----------------------------------------------------------------------------
(* Items and people *)

\* The value of an array slot that find() filled with undefined.
Undefined == [id |-> -1, name |-> <<>>, price |-> 0, assignedTo |-> <<>>]
IsUndefined(i) == i.id = -1

EmptyPeople == [n \in {} |-> [name |-> n, items |-> <<>>]]

\* Map.set on the people map.
MapSet(pm, key, person) ==
    [n \in DOMAIN pm \cup {key} |-> IF n = key THEN person ELSE pm[n]]

\* Map.delete on the people map.
MapDelete(pm, key) == [n \in DOMAIN pm \ {key} |-> pm[n]]

MapSeq(s, F(_)) == [i \in 1..Len(s) |-> F(s[i])]

\* Array.prototype.find by predicate: the index of the first hit, 0 if none.
FirstIndex(s, P(_)) ==
    LET hits == {i \in 1..Len(s) : P(s[i])}
    IN IF hits = {} THEN 0 ELSE CHOOSE i \in hits : \A j \in hits : i =< j

\* newReceiptItems.find(i => i.name.toLowerCase() === itemName.toLowerCase())
FindByName(items, itemName) ==
    LET Hit(i) == toLowerCase(i.name) = toLowerCase(itemName)
        k == FirstIndex(items, Hit)
    IN IF k = 0 THEN Undefined ELSE items[k]

\* newReceiptItems.find(newItem => newItem.id === id)
FindById(items, id) ==
    LET Hit(i) == i.id = id
        k == FirstIndex(items, Hit)
    IN IF k = 0 THEN Undefined ELSE items[k]

\* subtotal: the sum of all item prices.
RECURSIVE SumPrices(_)
SumPrices(items) ==
    IF Len(items) = 0 THEN 0 ELSE items[1].price + SumPrices(Tail(items))

subtotal == SumPrices(receiptItems)

\* unassignedItems: the items nobody is assigned to.
unassignedItems ==
    LET Free(i) == Len(i.assignedTo) = 0 IN SelectSeq(receiptItems, Free)

-----------------------------------------------------------------------------
(* billSummary *)

\* item.price / item.assignedTo.length
ItemShare(item) == NumDiv(Num(item.price), Num(Len(item.assignedTo)))

\* person.items.reduce((acc, item) => acc + item.price / item.assignedTo.length, 0)
RECURSIVE PersonSubtotal(_)
PersonSubtotal(items) ==
    IF Len(items) = 0 THEN Num(0)
    ELSE LET front == SubSeq(items, 1, Len(items) - 1)
         IN NumAdd(PersonSubtotal(front), ItemShare(items[Len(items)]))

\* PersonSummary with the tip share computed from the tax.
PersonSummaryTipFromTax(person, totalSubtotal, overallTax, overallTip) ==
    LET personSubtotal == PersonSubtotal(person.items)
        proportion == NumDiv(personSubtotal, Num(totalSubtotal))
        personTax == NumMul(Num(overallTax), proportion)
        personTip == NumMul(Num(overallTax), proportion)
        personTotal == NumAdd(NumAdd(personSubtotal, personTax), personTip)
    IN [subtotal |-> personSubtotal, tax |-> personTax,
        tip |-> personTip, total |-> personTotal]

\* One person's entry of the summary.
PersonSummary(person, totalSubtotal, overallTax, overallTip) ==
    LET personSubtotal == PersonSubtotal(person.items)
        proportion == NumDiv(personSubtotal, Num(totalSubtotal))
        personTax == NumMul(Num(overallTax), proportion)
        personTip == NumMul(Num(overallTip), proportion)
        personTotal == NumAdd(NumAdd(personSubtotal, personTax), personTip)
    IN [subtotal |-> personSubtotal, tax |-> personTax,
        tip |-> personTip, total |-> personTotal]

\* Reading item.price of an undefined slot throws a TypeError.
SummaryThrows(pm) ==
    \E n \in DOMAIN pm : \E k \in 1..Len(pm[n].items) : IsUndefined(pm[n].items[k])

EmptySummary == [n \in {} |-> PersonSummary([items |-> <<>>], 1, 0, 0)]

\* BillSummaryOf without the return on a zero subtotal.
BillSummaryNoZeroCheck(items, pm, overallTax, overallTip) ==
    LET totalSubtotal == SumPrices(items)
    IN IF SummaryThrows(pm)
       THEN [threw |-> TRUE, summary |-> EmptySummary]
       ELSE [threw |-> FALSE,
             summary |-> [n \in DOMAIN pm |->
                 PersonSummary(pm[n], totalSubtotal, overallTax, overallTip)]]
\* The computed billSummary as a function of the signals it reads:
\* threw tells whether the computation throws, summary is its value if not.
BillSummaryOf(items, pm, overallTax, overallTip) ==
    LET totalSubtotal == SumPrices(items)
    IN IF totalSubtotal = 0
       THEN [threw |-> FALSE, summary |-> EmptySummary]
       ELSE IF SummaryThrows(pm)
       THEN [threw |-> TRUE, summary |-> EmptySummary]
       ELSE [threw |-> FALSE,
             summary |-> [n \in DOMAIN pm |->
                 PersonSummary(pm[n], totalSubtotal, overallTax, overallTip)]]

billSummary == BillSummaryOf(receiptItems, people, tax, tip)

-----------------------------------------------------------------------------
(* handleChatMessage: applying a batch of assignments *)

\* AssignmentsForItem without the test that nobody is assigned yet.
AssignmentsForItemAnyItem(item, assignments) ==
    LET Hit(a) == toLowerCase(a.itemName) = toLowerCase(item.name)
    IN SelectSeq(assignments, Hit)

\* The item map of the batch: an item nobody is assigned to gains the
\* capitalized names of the assignments that name it, in batch order.
AssignmentsForItem(item, assignments) ==
    LET Hit(a) == /\ toLowerCase(a.itemName) = toLowerCase(item.name)
                  /\ Len(item.assignedTo) = 0
    IN SelectSeq(assignments, Hit)

ApplyToItem(item, assignments) ==
    LET assignmentsForItem == AssignmentsForItem(item, assignments)
        Name(a) == capitalize(a.personName)
    IN IF Len(assignmentsForItem) > 0
       THEN [item EXCEPT !.assignedTo = item.assignedTo \o MapSeq(assignmentsForItem, Name)]
       ELSE item

ApplyToItems(items, assignments) ==
    [k \in 1..Len(items) |-> ApplyToItem(items[k], assignments)]

\* person.items.some(i => i.id === id): "true", "false", or "throws" when an
\* undefined slot is read before a hit.
SomeHasId(items, id) ==
    LET Stop(i) == IsUndefined(i) \/ i.id = id
        k == FirstIndex(items, Stop)
    IN IF k = 0 THEN "false"
       ELSE IF IsUndefined(items[k]) THEN "throws" ELSE "true"

\* One turn of assignments.forEach on peopleToUpdate.
AddToPerson(pm, newItems, assignment) ==
    LET updatedItem == FindByName(newItems, assignment.itemName)
        personName == capitalize(assignment.personName)
        person == IF personName \in DOMAIN pm THEN pm[personName]
                  ELSE [name |-> personName, items |-> <<>>]
        has == SomeHasId(person.items, updatedItem.id)
    IN IF IsUndefined(updatedItem) THEN [threw |-> FALSE, people |-> pm]
       ELSE IF has = "throws" THEN [threw |-> TRUE, people |-> pm]
       ELSE IF has = "true" THEN [threw |-> FALSE, people |-> pm]
       ELSE [threw |-> FALSE,
             people |-> MapSet(pm, personName,
                 [person EXCEPT !.items = Append(person.items, updatedItem)])]

\* assignments.forEach(...), from the k-th assignment on.
RECURSIVE AddToPeople(_, _, _, _)
AddToPeople(pm, newItems, assignments, k) ==
    IF k > Len(assignments) THEN [threw |-> FALSE, people |-> pm]
    ELSE LET r == AddToPerson(pm, newItems, assignments[k])
         IN IF r.threw THEN r
            ELSE AddToPeople(r.people, newItems, assignments, k + 1)

\* The re-synchronisation loop: each entry of each person is replaced by the
\* item of newItems with its id (undefined if there is none).  Reading the id
\* of an undefined entry throws, which find() does when newItems is not empty.
SyncThrows(pm, newItems) == Len(newItems) > 0 /\ SummaryThrows(pm)

SyncPerson(person, newItems) ==
    LET Fresh(i) == IF IsUndefined(i) THEN Undefined ELSE FindById(newItems, i.id)
    IN [person EXCEPT !.items = MapSeq(person.items, Fresh)]

SyncPeople(pm, newItems) == [n \in DOMAIN pm |-> SyncPerson(pm[n], newItems)]

\* The else branch of handleChatMessage on a non-empty batch: the new item
\* list and people map, or threw when a TypeError leaves both as they were.
ApplyBatch(items, pm, assignments) ==
    LET newReceiptItems == ApplyToItems(items, assignments)
        added == AddToPeople(pm, newReceiptItems, assignments, 1)
    IN IF added.threw \/ SyncThrows(added.people, newReceiptItems)
       THEN [threw |-> TRUE, items |-> items, people |-> pm]
       ELSE [threw |-> FALSE, items |-> newReceiptItems,
             people |-> SyncPeople(added.people, newReceiptItems)]

-----------------------------------------------------------------------------
(* The component *)

ChatMessage(role, text) == [role |-> role, text |-> text]

UserTurns(history) == Cardinality({i \in 1..Len(history) : history[i].role = "user"})

Init ==
    /\ appState = "welcome"
    /\ errorMessage = NullMessage
    /\ receiptItems = <<>>
    /\ tax = 0
    /\ tip = 0
    /\ people = EmptyPeople
    /\ chatHistory = <<>>
    /\ userMessage = <<>>
    /\ isProcessingChat = FALSE
    /\ parseInFlight = 0
    /\ chatInFlight = 0

\* handleError(message)
handleError(message) ==
    /\ errorMessage' = message
    /\ appState' = "error"

\* onFileSelected without the test of file.type.
onFileSelectedNoTypeCheck(file) ==
    IF file = "none"
    THEN UNCHANGED vars
    ELSE /\ parseInFlight < MaxInFlight
         /\ appState' = "parsing"
         /\ errorMessage' = NullMessage
         /\ parseInFlight' = parseInFlight + 1
         /\ UNCHANGED <<receiptItems, tax, tip, people, chatHistory, userMessage,
                        isProcessingChat, chatInFlight>>

\* onFileSelected up to its first await: no file returns, a file that is not
\* an image is refused, an image starts an extraction.
onFileSelected(file) ==
    IF file = "none"
    THEN UNCHANGED vars
    ELSE IF file # "image/png"
    THEN /\ handleError(NotImageMessage)
         /\ UNCHANGED <<receiptItems, tax, tip, people, chatHistory, userMessage,
                        isProcessingChat, parseInFlight, chatInFlight>>
    ELSE /\ parseInFlight < MaxInFlight
         /\ appState' = "parsing"
         /\ errorMessage' = NullMessage
         /\ parseInFlight' = parseInFlight + 1
         /\ UNCHANGED <<receiptItems, tax, tip, people, chatHistory, userMessage,
                        isProcessingChat, chatInFlight>>

\* The items of a new session: ids are the positions 0, 1, ... in the receipt.
NewItems(parsedItems) ==
    [k \in 1..Len(parsedItems) |->
        [id |-> k - 1, name |-> parsedItems[k].name,
         price |-> parsedItems[k].price, assignedTo |-> <<>>]]

\* onFileSelected after parseReceipt resolved with parsedData.
parseReceiptResolved(parsedData) ==
    /\ parseInFlight > 0
    /\ parseInFlight' = parseInFlight - 1
    /\ receiptItems' = NewItems(parsedData.items)
    /\ tax' = parsedData.tax
    /\ tip' = parsedData.tip
    /\ chatHistory' = <<ChatMessage("system", ReceiptParsedText)>>
    /\ appState' = "splitting"
    /\ UNCHANGED <<errorMessage, people, userMessage, isProcessingChat, chatInFlight>>

\* onFileSelected after fileToBase64 or parseReceipt rejected.
parseReceiptRejected(message) ==
    /\ parseInFlight > 0
    /\ parseInFlight' = parseInFlight - 1
    /\ handleError(message)
    /\ UNCHANGED <<receiptItems, tax, tip, people, chatHistory, userMessage,
                   isProcessingChat, chatInFlight>>

\* The chat box's two-way binding writes userMessage.
setUserMessage(text) ==
    /\ userMessage' = text
    /\ UNCHANGED <<appState, errorMessage, receiptItems, tax, tip, people,
                   chatHistory, isProcessingChat, parseInFlight, chatInFlight>>

\* handleChatMessage without the test of isProcessingChat.
handleChatMessageNoBusyCheck ==
    LET message == trim(userMessage)
    IN IF Len(message) = 0
       THEN UNCHANGED vars
       ELSE /\ UserTurns(chatHistory) < MaxChats
            /\ chatInFlight < MaxChatsInFlight
            /\ isProcessingChat' = TRUE
            /\ chatHistory' = Append(chatHistory, ChatMessage("user", message))
            /\ userMessage' = <<>>
            /\ chatInFlight' = chatInFlight + 1
            /\ UNCHANGED <<appState, errorMessage, receiptItems, tax, tip, people,
                           parseInFlight>>

\* handleChatMessage up to its await.
handleChatMessage ==
    LET message == trim(userMessage)
    IN IF Len(message) = 0 \/ isProcessingChat
       THEN UNCHANGED vars
       ELSE /\ UserTurns(chatHistory) < MaxChats
            /\ chatInFlight < MaxChatsInFlight
            /\ isProcessingChat' = TRUE
            /\ chatHistory' = Append(chatHistory, ChatMessage("user", message))
            /\ userMessage' = <<>>
            /\ chatInFlight' = chatInFlight + 1
            /\ UNCHANGED <<appState, errorMessage, receiptItems, tax, tip, people,
                           parseInFlight>>

\* assignItemsResolved without the branch for an empty batch.
assignItemsResolvedNoEmptyBranch(assignments) ==
    /\ chatInFlight > 0
    /\ chatInFlight' = chatInFlight - 1
    /\ LET r == ApplyBatch(receiptItems, people, assignments)
       IN IF r.threw
          THEN /\ chatHistory' = Append(chatHistory, ChatMessage("model", TypeErrorText))
               /\ UNCHANGED <<receiptItems, people>>
          ELSE /\ receiptItems' = r.items
               /\ people' = r.people
               /\ chatHistory' = Append(chatHistory, ChatMessage("model", AssignedText))
    /\ isProcessingChat' = FALSE
    /\ UNCHANGED <<appState, errorMessage, tax, tip, userMessage, parseInFlight>>

\* handleChatMessage after assignItems resolved with assignments.
assignItemsResolved(assignments) ==
    /\ chatInFlight > 0
    /\ chatInFlight' = chatInFlight - 1
    /\ IF Len(assignments) = 0
       THEN /\ chatHistory' = Append(chatHistory, ChatMessage("model", NothingFoundText))
            /\ UNCHANGED <<receiptItems, people>>
       ELSE LET r == ApplyBatch(receiptItems, people, assignments)
            IN IF r.threw
               THEN /\ chatHistory' = Append(chatHistory, ChatMessage("model", TypeErrorText))
                    /\ UNCHANGED <<receiptItems, people>>
               ELSE /\ receiptItems' = r.items
                    /\ people' = r.people
                    /\ chatHistory' = Append(chatHistory, ChatMessage("model", AssignedText))
    /\ isProcessingChat' = FALSE
    /\ UNCHANGED <<appState, errorMessage, tax, tip, userMessage, parseInFlight>>

\* assignItemsRejected that reports the failure as onFileSelected does, with
\* handleError.
assignItemsRejectedAsError ==
    /\ chatInFlight > 0
    /\ chatInFlight' = chatInFlight - 1
    /\ handleError(UnknownErrorMessage)
    /\ isProcessingChat' = FALSE
    /\ UNCHANGED <<receiptItems, tax, tip, people, chatHistory, userMessage,
                   parseInFlight>>

\* assignItemsRejected without the finally block.
assignItemsRejectedNoFinally ==
    /\ chatInFlight > 0
    /\ chatInFlight' = chatInFlight - 1
    /\ chatHistory' = Append(chatHistory, ChatMessage("model", RephraseText))
    /\ UNCHANGED <<appState, errorMessage, receiptItems, tax, tip, people,
                   userMessage, isProcessingChat, parseInFlight>>

\* assignItemsRejected whose catch block also empties the people map.
assignItemsRejectedDropsPeople ==
    /\ chatInFlight > 0
    /\ chatInFlight' = chatInFlight - 1
    /\ chatHistory' = Append(chatHistory, ChatMessage("model", RephraseText))
    /\ people' = EmptyPeople
    /\ isProcessingChat' = FALSE
    /\ UNCHANGED <<appState, errorMessage, receiptItems, tax, tip,
                   userMessage, parseInFlight>>

\* handleChatMessage after assignItems rejected.
assignItemsRejected ==
    /\ chatInFlight > 0
    /\ chatInFlight' = chatInFlight - 1
    /\ chatHistory' = Append(chatHistory, ChatMessage("model", RephraseText))
    /\ isProcessingChat' = FALSE
    /\ UNCHANGED <<appState, errorMessage, receiptItems, tax, tip, people,
                   userMessage, parseInFlight>>

\* resetApp()
resetApp ==
    /\ appState' = "welcome"
    /\ errorMessage' = NullMessage
    /\ receiptItems' = <<>>
    /\ tax' = 0
    /\ tip' = 0
    /\ people' = EmptyPeople
    /\ chatHistory' = <<>>
    /\ userMessage' = <<>>
    /\ UNCHANGED <<isProcessingChat, parseInFlight, chatInFlight>>

\* receiptItems.update of unassignItem.
UnassignInItems(items, id, personName) ==
    LET Other(p) == p # personName
        Strip(item) == IF item.id = id
                       THEN [item EXCEPT !.assignedTo = SelectSeq(item.assignedTo, Other)]
                       ELSE item
    IN MapSeq(items, Strip)

\* person.items.filter(i => i.id !== id) throws on an undefined entry.
UnassignThrows(pm, personName) ==
    /\ personName \in DOMAIN pm
    /\ \E k \in 1..Len(pm[personName].items) : IsUndefined(pm[personName].items[k])

\* UnassignInPeople that keeps a person whose list became empty.
UnassignInPeopleKeepEmpty(pm, id, personName) ==
    IF personName \notin DOMAIN pm THEN pm
    ELSE LET Keep(i) == i.id # id
             updatedItems == SelectSeq(pm[personName].items, Keep)
         IN MapSet(pm, personName, [pm[personName] EXCEPT !.items = updatedItems])

\* people.update of unassignItem.
UnassignInPeople(pm, id, personName) ==
    IF personName \notin DOMAIN pm THEN pm
    ELSE LET Keep(i) == i.id # id
             updatedItems == SelectSeq(pm[personName].items, Keep)
         IN IF Len(updatedItems) = 0
            THEN MapDelete(pm, personName)
            ELSE MapSet(pm, personName, [pm[personName] EXCEPT !.items = updatedItems])

\* unassignItem(itemToUnassign, personName); only itemToUnassign.id is read.
unassignItem(id, personName) ==
    /\ receiptItems' = UnassignInItems(receiptItems, id, personName)
    /\ people' = IF UnassignThrows(people, personName) THEN people
                 ELSE UnassignInPeople(people, id, personName)
    /\ UNCHANGED <<appState, errorMessage, tax, tip, chatHistory, userMessage,
                   isProcessingChat, parseInFlight, chatInFlight>>

\* The ids and names the page can offer to unassignItem: those of the items
\* and of the people it shows.
ShownIds ==
    ({receiptItems[k].id : k \in 1..Len(receiptItems)}
     \cup UNION {{people[n].items[k].id : k \in 1..Len(people[n].items)} : n \in DOMAIN people})
    \ {Undefined.id}
ShownNames ==
    DOMAIN people \cup UNION {Range(receiptItems[k].assignedTo) : k \in 1..Len(receiptItems)}

\* What the collaborators answer in Next: the example's receipt and the
\* shorter one, and batches of no or one assignment.
LifecycleReceipts == {ExampleReceipt, FreeReceipt}
LifecycleBatches == {<<>>, <<davidBurger>>, <<JaneFries>>}

\* Every handler, at any time: the component itself refuses no call but a
\* chat message while one is being processed.
Next ==
    \/ \E file \in Files : onFileSelected(file)
    \/ \E parsedData \in LifecycleReceipts : parseReceiptResolved(parsedData)
    \/ \E message \in ParseErrors : parseReceiptRejected(message)
    \/ \E text \in Messages : setUserMessage(text)
    \/ handleChatMessage
    \/ \E assignments \in LifecycleBatches : assignItemsResolved(assignments)
    \/ assignItemsRejected
    \/ resetApp
    \/ \E id \in ShownIds, personName \in ShownNames : unassignItem(id, personName)

Spec == Init /\ [][Next]_vars

\* The Interpretation Collaborator answers: assignItems resolves or rejects.
AssignItemsAnswers ==
    \/ \E assignments \in LifecycleBatches : assignItemsResolved(assignments)
    \/ assignItemsRejected

\* Uploads, chat messages and resets at any time, with a collaborator that
\* answers every assignItems request in the end.
LiveNext ==
    \/ onFileSelected("image/png")
    \/ \E parsedData \in LifecycleReceipts : parseReceiptResolved(parsedData)
    \/ setUserMessage(<<32, 104>>)
    \/ handleChatMessage
    \/ \E assignments \in LifecycleBatches : assignItemsResolved(assignments)
    \/ assignItemsRejected
    \/ resetApp

LiveSpec == Init /\ [][LiveNext]_vars /\ WF_vars(AssignItemsAnswers)

\* One session: a single upload from the welcome page whose extraction
\* succeeds, then chat messages and unassignItem calls on the splitting page.
SessionNext ==
    \/ appState = "welcome" /\ onFileSelected("image/png")
    \/ \E parsedData \in Receipts : parseReceiptResolved(parsedData)
    \/ appState = "splitting" /\ setUserMessage(<<32, 104>>)
    \/ appState = "splitting" /\ handleChatMessage
    \/ \E assignments \in Batches : assignItemsResolved(assignments)
    \/ \E id \in ShownIds, personName \in ShownNames : unassignItem(id, personName)

SessionSpec == Init /\ [][SessionNext]_vars

-----------------------------------------------------------------------------
(* Properties *)

\* The item of the current receipt list with this id (undefined if none).
CurrentItem(id) == FindById(receiptItems, id)

\* Whether the map pm has an entry for p that lists an item with this id.
HoldsIn(pm, p, id) ==
    /\ p \in DOMAIN pm
    /\ \E k \in 1..Len(pm[p].items) : pm[p].items[k].id = id

Holds(p, id) == HoldsIn(people, p, id)

\* Equality of two strings up to the case of their letters.
EqualIgnoringCase(a, b) ==
    /\ Len(a) = Len(b)
    /\ \A i \in 1..Len(a) : UpperChar(a[i]) = UpperChar(b[i])

\* Whether the batch names the item.
Names(assignments, item) ==
    \E i \in 1..Len(assignments) : EqualIgnoringCase(assignments[i].itemName, item.name)

LastText(history) == IF Len(history) = 0 THEN <<>> ELSE history[Len(history)].text

\* A step of handleChatMessage that applies this non-empty batch.
Applies(assignments) ==
    /\ Len(assignments) > 0
    /\ assignItemsResolved(assignments)
    /\ LastText(chatHistory') = AssignedText

\* a =< b on numbers.
NumLeq(a, b) ==
    /\ ~IsNaN(a)
    /\ ~IsNaN(b)
    /\ \/ IsInf(b)
       \/ IsFinite(a) /\ IsFinite(b) /\ a.n * b.d =< b.n * a.d

\* The sum of the subtotals of a summary over the names in S.
RECURSIVE SumOfSubtotals(_, _)
SumOfSubtotals(summary, S) ==
    IF S = {} THEN Num(0)
    ELSE LET n == CHOOSE x \in S : TRUE
         IN NumAdd(summary[n].subtotal, SumOfSubtotals(summary, S \ {n}))

\* C1: every item in a person's list is an item of the receipt whose
\* assignedTo contains that person's name.
C1_PersonItemsAttributed ==
    \A p \in DOMAIN people : \A k \in 1..Len(people[p].items) :
        \E j \in 1..Len(receiptItems) :
            /\ receiptItems[j].id = people[p].items[k].id
            /\ p \in Range(receiptItems[j].assignedTo)

\* C2: the subtotals of all people together never exceed the overall
\* subtotal (the claim adds: and equal it exactly when every item is assigned).
C2_SubtotalsBounded ==
    /\ ~billSummary.threw
    /\ NumLeq(SumOfSubtotals(billSummary.summary, DOMAIN billSummary.summary),
              Num(subtotal))

\* What the entries of p for the item with this id add to p's subtotal.
Contribution(p, id) ==
    LET Same(i) == i.id = id
    IN IF p \in DOMAIN people
       THEN PersonSubtotal(SelectSeq(people[p].items, Same))
       ELSE Num(0)

\* C3: an item assigned to k >= 1 people adds price/k to the subtotal of each
\* of them, and a subtotal is the sum of what the person's items add.
C3_EqualSplit ==
    subtotal # 0 =>
        /\ ~billSummary.threw
        /\ \A j \in 1..Len(receiptItems) :
             \A p \in Range(receiptItems[j].assignedTo) :
                /\ p \in DOMAIN billSummary.summary
                /\ Contribution(p, receiptItems[j].id)
                      = NumDiv(Num(receiptItems[j].price),
                               Num(Len(receiptItems[j].assignedTo)))
        /\ \A p \in DOMAIN billSummary.summary :
             billSummary.summary[p].subtotal = PersonSubtotal(people[p].items)

\* C5: everyone named in an item's assignedTo has a record that lists the
\* item, and no record lists an item id twice.
C5_AssigneesHoldItems ==
    /\ \A j \in 1..Len(receiptItems) :
         \A p \in Range(receiptItems[j].assignedTo) : Holds(p, receiptItems[j].id)
    /\ \A p \in DOMAIN people :
         \A k1, k2 \in 1..Len(people[p].items) :
            people[p].items[k1].id = people[p].items[k2].id => k1 = k2

\* The state of the worked example after its one batch, and its summary.
ExampleItemsAfter ==
    <<[id |-> 0, name |-> Burger, price |-> 10, assignedTo |-> <<David>>],
      [id |-> 1, name |-> Fries, price |-> 4, assignedTo |-> <<Jane, John>>]>>
ExamplePeopleAfter ==
    [n \in {David, Jane, John} |->
        [name |-> n,
         items |-> IF n = David THEN <<ExampleItemsAfter[1]>> ELSE <<ExampleItemsAfter[2]>>]]
ExampleSummary ==
    [n \in {David, Jane, John} |->
        IF n = David
        THEN [subtotal |-> Num(10), tax |-> [n |-> 5, d |-> 7],
              tip |-> [n |-> 10, d |-> 7], total |-> [n |-> 85, d |-> 7]]
        ELSE [subtotal |-> Num(2), tax |-> [n |-> 1, d |-> 7],
              tip |-> [n |-> 2, d |-> 7], total |-> [n |-> 17, d |-> 7]]]
InExampleState ==
    /\ receiptItems = ExampleItemsAfter
    /\ people = ExamplePeopleAfter
    /\ tax = 1
    /\ tip = 2

\* C4: with a non-zero overall subtotal each person's tax and tip are the
\* overall tax and tip times subtotal over overall subtotal, and the total is
\* subtotal + tax + tip; the worked example's batch yields the example's
\* state, whose summary is David 10 with 10/14 of tax and tip, Jane and John
\* 2 each with 2/14.
C4_ProportionalShares ==
    /\ (subtotal # 0 /\ ~billSummary.threw) =>
         \A p \in DOMAIN billSummary.summary :
            LET s == billSummary.summary[p]
            IN /\ s.tax = NumDiv(NumMul(Num(tax), s.subtotal), Num(subtotal))
               /\ s.tip = NumDiv(NumMul(Num(tip), s.subtotal), Num(subtotal))
               /\ s.total = NumAdd(s.subtotal, NumAdd(s.tax, s.tip))
    /\ LET r == ApplyBatch(NewItems(ExampleReceipt.items), EmptyPeople, ExampleBatch)
       IN ~r.threw /\ r.items = ExampleItemsAfter /\ r.people = ExamplePeopleAfter
    /\ InExampleState => billSummary = [threw |-> FALSE, summary |-> ExampleSummary]

\* The example's state, reached by one batch after the extraction.
C4_Witness ==
    /\ InExampleState
    /\ Len(chatHistory) = 3
    /\ LastText(chatHistory) = AssignedText

\* C6: while an answer is awaited, whatever non-empty batch handleChatMessage
\* then applies leaves every item that had assignees as it was, and gives
\* assignees to an item that had none exactly when it names the item up to
\* case.
C6_AssignedItemsUntouched ==
    chatInFlight > 0 =>
        \A assignments \in Batches \ {<<>>} :
            LET r == ApplyBatch(receiptItems, people, assignments)
            IN ~r.threw =>
                 /\ Len(r.items) = Len(receiptItems)
                 /\ \A k \in 1..Len(receiptItems) :
                      IF Len(receiptItems[k].assignedTo) > 0
                      THEN r.items[k] = receiptItems[k]
                      ELSE /\ r.items[k].id = receiptItems[k].id
                           /\ r.items[k].name = receiptItems[k].name
                           /\ r.items[k].price = receiptItems[k].price
                           /\ Len(r.items[k].assignedTo) > 0
                                 <=> Names(assignments, receiptItems[k])

\* Someone's record lists an item that is assigned to others only: a batch
\* named the item for them when it was already assigned.
C6_Witness ==
    \E p \in DOMAIN people : \E k \in 1..Len(people[p].items) :
        /\ ~IsUndefined(CurrentItem(people[p].items[k].id))
        /\ Len(CurrentItem(people[p].items[k].id).assignedTo) > 0
        /\ p \notin Range(CurrentItem(people[p].items[k].id).assignedTo)

\* C7: when an applied batch assigns an item nobody had to two different
\* people, the item's assignedTo then contains both capitalized names and
\* both people have a record that lists the item.
C7_SharedItemBothRecorded ==
    [][\A assignments \in Batches :
          Applies(assignments) =>
            \A k \in 1..Len(receiptItems) : \A i, j \in 1..Len(assignments) :
                ( /\ Len(receiptItems[k].assignedTo) = 0
                  /\ EqualIgnoringCase(assignments[i].itemName, receiptItems[k].name)
                  /\ EqualIgnoringCase(assignments[j].itemName, receiptItems[k].name)
                  /\ assignments[i].personName # assignments[j].personName )
                => \A a \in {assignments[i], assignments[j]} :
                      /\ capitalize(a.personName) \in Range(receiptItems'[k].assignedTo)
                      /\ HoldsIn(people', capitalize(a.personName), receiptItems[k].id)]_vars

\* C8: unassignItem takes the name out of the item's assignedTo and the item
\* out of the person's list, deletes the person whose list became empty and
\* keeps the others, and leaves the number of items and their id, name and
\* price alone; so no person in the map ever has an empty list.
C8_UnassignRemoves ==
    /\ [][\A id \in ShownIds, personName \in ShownNames :
            unassignItem(id, personName) =>
              /\ Len(receiptItems') = Len(receiptItems)
              /\ \A k \in 1..Len(receiptItems) :
                   /\ receiptItems'[k].id = receiptItems[k].id
                   /\ receiptItems'[k].name = receiptItems[k].name
                   /\ receiptItems'[k].price = receiptItems[k].price
                   /\ IF receiptItems[k].id = id
                      THEN /\ personName \notin Range(receiptItems'[k].assignedTo)
                           /\ Range(receiptItems'[k].assignedTo)
                                 = Range(receiptItems[k].assignedTo) \ {personName}
                      ELSE receiptItems'[k].assignedTo = receiptItems[k].assignedTo
              /\ ~HoldsIn(people', personName, id)
              /\ \A q \in DOMAIN people \ {personName} :
                   q \in DOMAIN people' /\ people'[q] = people[q]
              /\ DOMAIN people' \subseteq DOMAIN people
              /\ personName \in DOMAIN people =>
                   LET rest == {k \in 1..Len(people[personName].items) :
                                    people[personName].items[k].id # id}
                   IN IF rest = {}
                      THEN personName \notin DOMAIN people'
                      ELSE /\ personName \in DOMAIN people'
                           /\ Len(people'[personName].items) = Cardinality(rest)
                           /\ Range(people'[personName].items)
                                 = {people[personName].items[k] : k \in rest}]_vars
    /\ [](\A p \in DOMAIN people : Len(people[p].items) > 0)

\* After one applied batch on the example's receipt nobody is left in the
\* map: unassignItem deleted the people whose list it emptied.
C8_Witness ==
    /\ Len(receiptItems) = 2
    /\ receiptItems[1].name = Burger
    /\ Len(chatHistory) = 3
    /\ LastText(chatHistory) = AssignedText
    /\ people = EmptyPeople

\* C9: an empty batch leaves receiptItems, people, tax, tip and appState as
\* they were and appends one model message, right after the user's message.
C9_EmptyBatchIdentity ==
    [][assignItemsResolved(<<>>) =>
          /\ UNCHANGED <<receiptItems, people, tax, tip, appState>>
          /\ Len(chatHistory) > 0
          /\ chatHistory[Len(chatHistory)].role = "user"
          /\ chatHistory' = Append(chatHistory, ChatMessage("model", NothingFoundText))]_vars

\* The transcript ends with the message that nothing was found.
C9_Witness ==
    /\ LastText(chatHistory) = NothingFoundText
    /\ chatInFlight = 0

\* C10: when the item prices sum to 0, billSummary is the empty mapping.
C10_EmptySummaryOnZeroSubtotal ==
    subtotal = 0 => /\ ~billSummary.threw
                    /\ DOMAIN billSummary.summary = {}

\* The prices sum to 0 while the map has people and tax and tip are not 0.
C10_Witness ==
    /\ subtotal = 0
    /\ DOMAIN people # {}
    /\ tax # 0
    /\ tip # 0


\* The session data as resetApp leaves it.
Cleared ==
    /\ appState = "welcome"
    /\ receiptItems = <<>>
    /\ people = EmptyPeople
    /\ chatHistory = <<>>
    /\ tax = 0
    /\ tip = 0

\* A step in which a request in flight is answered: parseReceipt or
\* assignItems resolves or rejects.
Completion ==
    \/ \E parsedData \in LifecycleReceipts : parseReceiptResolved(parsedData)
    \/ \E message \in ParseErrors : parseReceiptRejected(message)
    \/ \E assignments \in LifecycleBatches : assignItemsResolved(assignments)
    \/ assignItemsRejected

\* C11: after resetApp the session stays cleared until the next upload, also
\* when a request that was in flight at the reset is answered: the answer of a
\* request leaves a cleared session cleared.
C11_ResetStaysCleared ==
    [][(Cleared /\ Completion) => Cleared']_vars

\* C12: once appState is error it stays error until resetApp: no answer of an
\* extraction started before, no chat handling and no unassignItem call moves
\* it elsewhere.
C12_ErrorUntilReset ==
    [][(/\ appState = "error"
        /\ \/ Completion
           \/ handleChatMessage
           \/ \E id \in ShownIds, personName \in ShownNames : unassignItem(id, personName))
       => appState' = "error"]_vars

\* A step of handleChatMessage: its start, or its continuation after
\* assignItems resolved or rejected.
ChatStep ==
    \/ handleChatMessage
    \/ \E assignments \in LifecycleBatches : assignItemsResolved(assignments)
    \/ assignItemsRejected

\* C13: no step of handleChatMessage changes appState, whether assignItems
\* returned assignments, returned none or failed; a failure appends a model
\* message to the transcript and leaves the error message alone.
C13_ChatKeepsAppState ==
    [][/\ ChatStep => appState' = appState
       /\ assignItemsRejected =>
             /\ errorMessage' = errorMessage
             /\ Len(chatHistory') = Len(chatHistory) + 1
             /\ chatHistory'[Len(chatHistory')].role = "model"]_vars

\* On the splitting page, a failed interpretation has been reported in the
\* transcript.
C13_Witness ==
    /\ appState = "splitting"
    /\ LastText(chatHistory) = RephraseText
    /\ errorMessage = NullMessage

\* C14: a file that is not an image starts no extraction, does not make
\* appState parsing, sets the error message at once and leaves receiptItems,
\* people, tax and tip as they were.
C14_NonImageRejected ==
    [][onFileSelected("text/plain") =>
          /\ parseInFlight' = parseInFlight
          /\ appState' # "parsing"
          /\ errorMessage' = NotImageMessage
          /\ UNCHANGED <<receiptItems, people, tax, tip>>]_vars

\* A file that is not an image was refused while a receipt was loaded: the
\* receipt is still there and nothing is in flight.
C14_Witness ==
    /\ errorMessage = NotImageMessage
    /\ appState = "error"
    /\ Len(receiptItems) > 0
    /\ parseInFlight = 0

\* C15: every entry of a person's list has the assignedTo of the item with
\* its id in receiptItems, so billSummary divides by the current number of
\* assignees.
C15_SnapshotsInSync ==
    \A p \in DOMAIN people : \A k \in 1..Len(people[p].items) :
        LET entry == people[p].items[k]
        IN ~IsUndefined(entry) =>
              /\ ~IsUndefined(CurrentItem(entry.id))
              /\ entry.assignedTo = CurrentItem(entry.id).assignedTo

\* C18: no item's assignedTo lists a name twice.
C18_NoDuplicateAssignees ==
    \A k \in 1..Len(receiptItems) :
        Cardinality(Range(receiptItems[k].assignedTo)) = Len(receiptItems[k].assignedTo)

\* C20: every entry of a person's list has a non-empty assignedTo, and every
\* subtotal, tax, tip and total of billSummary is a finite number.
C20_NoDivisionByZero ==
    /\ \A p \in DOMAIN people : \A k \in 1..Len(people[p].items) :
          ~IsUndefined(people[p].items[k]) => Len(people[p].items[k].assignedTo) > 0
    /\ ~billSummary.threw
    /\ \A p \in DOMAIN billSummary.summary :
          /\ IsFinite(billSummary.summary[p].subtotal)
          /\ IsFinite(billSummary.summary[p].tax)
          /\ IsFinite(billSummary.summary[p].tip)
          /\ IsFinite(billSummary.summary[p].total)

\* C16: at most one assignItems request is in flight, and the flag is set
\* while it is; while the flag is set or the message is blank, no step starts
\* a request or adds a user message to the transcript, and a call of
\* handleChatMessage leaves receiptItems and people as they were.
C16_SingleFlight ==
    /\ [](chatInFlight <= 1 /\ (chatInFlight = 1 => isProcessingChat))
    /\ [][(isProcessingChat \/ Len(trim(userMessage)) = 0) =>
            /\ chatInFlight' <= chatInFlight
            /\ UserTurns(chatHistory') <= UserTurns(chatHistory)
            /\ handleChatMessage => UNCHANGED <<receiptItems, people, chatHistory>>]_vars

\* A second message has been typed while the first is being processed.
C16_Witness ==
    /\ isProcessingChat
    /\ chatInFlight = 1
    /\ Len(trim(userMessage)) > 0

\* C17: a set busy flag is cleared in the end, whatever the answer of
\* assignItems, and the flag is set only while a request is in flight.
C17_BusyFlagCleared ==
    /\ isProcessingChat ~> ~isProcessingChat
    /\ [](isProcessingChat => chatInFlight > 0)

\* The flag is clear again after the handler itself threw on the answer, and
\* after a rejected request.
C17_Witness ==
    /\ ~isProcessingChat
    /\ chatInFlight = 0
    /\ LastText(chatHistory) \in {TypeErrorText, RephraseText}
    /\ UserTurns(chatHistory) > 0

\* C19: when assignItems fails, receiptItems, people, tax and tip stay as
\* they were when the failure arrived; the transcript gains the service's
\* error message as one model message and the busy flag is cleared.
C19_FailureFrame ==
    [][assignItemsRejected =>
          /\ UNCHANGED <<receiptItems, people, tax, tip>>
          /\ chatHistory' = Append(chatHistory, ChatMessage("model", RephraseText))
          /\ isProcessingChat
          /\ ~isProcessingChat']_vars

\* A failure was reported while people held items.
C19_Witness ==
    /\ LastText(chatHistory) = RephraseText
    /\ DOMAIN people # {}
    /\ Len(receiptItems) > 0
    /\ ~isProcessingChat

====
